---- MODULE Spec2Model ----
(***************************************************************************)
(* Telegram link manager and session gateway of the calendar auth service  *)
(* (src/VKR/auth-service/main.py): the users and telegram_links tables,    *)
(* the handlers that read and write them, and the clock the link codes     *)
(* expire against.                                                          *)
(*                                                                         *)
(* Spec        : register, link, confirm and unlink requests run one at a   *)
(*               time, each as one atomic step, while the clock advances.  *)
(* SpecGateway : the same with WebApp logins.                              *)
(* SpecConc    : telegram_link and telegram_confirm run as transactions    *)
(*               whose statements interleave between NumProcs request      *)
(*               workers, all within one instant of the clock.             *)
(* SpecAuth    : register, login, /me and /profile requests with the       *)
(*               credentials and the bearer token of the client, over a    *)
(*               token's lifetime.                                         *)
(* SpecRoot    : register and login of src/auth-service/main.py.           *)
(* SpecSession : one account's session: logins, change-password, profile   *)
(*               updates, link, confirm and unlink with the held token.    *)
(* SpecVerifier: WebApp logins from raw initData strings.                  *)
(* SpecBot     : the Telegram bot's /unlink in front of the service.       *)
(* SpecStored  : Spec started from a link row with any expiry the column  *)
(*               admits.                                                   *)
(* SpecBoot    : wait_for_db at startup.                                   *)
(* SpecAgent   : /ask and /chat/history of the agent service               *)
(*               (src/agent-service/app).                                  *)
(* SpecChat    : /ask and get_chat_history with small limits.              *)
(* SpecEvents  : the event routes for two accounts.                        *)
(* SpecSignup  : register requests that interleave.                        *)
(***************************************************************************)
EXTENDS Integers, Sequences, FiniteSets, TLC

VARIABLES users, links, now, last, okConfirms, proc, bearer, form, initData, boot, events, chat, reply

vars == <<users, links, now, last, okConfirms, proc, bearer, form, initData,
         boot, events, chat, reply>>

(***************************************************************************)
(* Bounds of the model.                                                    *)
(***************************************************************************)
MaxUsers == 2
NumCodes == 2
NumProcs == 2

(***************************************************************************)
(* Program constants.                                                      *)
(***************************************************************************)
LinkTTLMinutes == 15
MaxUsernameLen == 150
MaxPasswordLen == 72
TokenTTLMinutes == 60

\* Python's None, as stored in a nullable String column.
NoneV == "None"

\* The values uuid4()[:8] can take (a small universe, so that collisions happen).
Codes == 1..NumCodes
\* effective_user.id as the bot sends it (an int, never 0).
TelegramIds == {1, 2}
\* effective_user.username or "": the empty string when the user has none.
TelegramUsernames == {"", "neo"}
\* Raw request strings for register, as sequences of characters.
UsernameInputs == {<<>>, <<" ">>, <<"a">>, <<" ", "a">>, <<"b">>}
PasswordInputs == {<<>>, <<"p">>, <<"p", " ">>}
Procs == 1..NumProcs
\* The instants (minutes) at which requests arrive: at the start, a code's
\* lifetime after the start, and a minute after that.
Instants == {0, LinkTTLMinutes, LinkTTLMinutes + 1}

(***************************************************************************)
(* Responses: the HTTP status and the detail of the HTTPException raised   *)
(* (500 for an exception no handler catches).                              *)
(***************************************************************************)
Response(status, detail) == [status |-> status, detail |-> detail]
Ok200 == Response(200, "ok")
Error500 == Response(500, "Internal Server Error")

(***************************************************************************)
(* Strings.                                                                *)
(***************************************************************************)
RECURSIVE LStrip(_)
LStrip(s) == IF s # <<>> /\ Head(s) = " " THEN LStrip(Tail(s)) ELSE s

RECURSIVE RStrip(_)
RStrip(s) ==
    IF s # <<>> /\ s[Len(s)] = " " THEN RStrip(SubSeq(s, 1, Len(s) - 1)) ELSE s

\* str.strip()
Strip(s) == RStrip(LStrip(s))

\* str(telegram_id): the decimal rendering of an int
Str(n) == ToString(n)

\* f"tg_{telegram_user_id}" as a sequence of characters (ids of one digit)
TgUsername(tid) == <<"t", "g", "_", Str(tid)>>
\* the same for an id that came as a JSON string
TgName(id) == <<"t", "g", "_", id>>

(***************************************************************************)
(* Password hasher: a salted one-way hash verifies exactly its plaintext.  *)
(***************************************************************************)
get_password_hash(password) == [scheme |-> "pwd_context", plain |-> password]

verify_password(plain_password, hashed_password) ==
    hashed_password.plain = plain_password

\* str(uuid.uuid4()) used as the password of an auto-provisioned account
RandomPassword == <<"u", "u", "i", "d", "4">>

(***************************************************************************)
(* Rows.                                                                   *)
(***************************************************************************)
User(id, username, hashed_password, chat_id, tg_username) ==
    [id |-> id, username |-> username, hashed_password |-> hashed_password,
     theme |-> "dark", hide_done |-> 0, timezone |-> "Europe/Amsterdam",
     telegram_chat_id |-> chat_id, telegram_username |-> tg_username]

TelegramLink(id, user_id, code, expires_at) ==
    [id |-> id, user_id |-> user_id, code |-> code, expires_at |-> expires_at,
     used |-> 0]

\* datetime.isoformat() of an aware UTC datetime, in minutes since start
IsoFormat(t) == [kind |-> "iso", t |-> t]
\* A NULL expires_at column (the column is nullable).
NullExpiry == [kind |-> "null", t |-> 0]
\* An empty string in the column: falsy in "if link.expires_at:" like NULL.
EmptyExpiry == [kind |-> "empty", t |-> 0]
\* A string datetime.fromisoformat() raises on.
CorruptExpiry == [kind |-> "corrupt", t |-> 0]

UserIds == 1..Len(users)
LinkIds == 1..Len(links)

\* db.query(TelegramLink).filter(TelegramLink.code == code).first(): 0 when none
LinkByCode(ls, code) ==
    IF \E i \in 1..Len(ls) : ls[i].code = code
    THEN CHOOSE i \in 1..Len(ls) : ls[i].code = code
    ELSE 0

\* db.query(User).filter(User.telegram_chat_id == chat).first(): the rows the
\* query can return.  The column is not unique and the query has no ORDER BY,
\* so any matching row can come first; {0} when none matches.
FirstByChatId(us, chat_id) ==
    IF \E i \in 1..Len(us) : us[i].telegram_chat_id = chat_id
    THEN {i \in 1..Len(us) : us[i].telegram_chat_id = chat_id}
    ELSE {0}

\* db.query(User).filter(User.username == username).first(): 0 when none
UserByName(us, username) ==
    IF \E i \in 1..Len(us) : us[i].username = username
    THEN CHOOSE i \in 1..Len(us) : us[i].username = username
    ELSE 0

\* What str(uuid.uuid4())[:8] can return: a code some row already holds, or a
\* code no row holds (code values are interchangeable, so the least unheld one
\* stands for all of them).
GeneratedCodes(ls) ==
    LET held == {ls[i].code : i \in 1..Len(ls)}
        free == Codes \ held
    IN  held \cup {c \in free : \A d \in free : c <= d}

\* The rows of user_id with used == 0: the filter of the UPDATE in telegram_link.
UnusedOf(ls, user_id) ==
    {i \in 1..Len(ls) : ls[i].user_id = user_id /\ ls[i].used = 0}

\* The record of the call that completed last, for the requests that run one at
\* a time; okConfirms counts the {status: ok} answers of telegram_confirm per code.
\* arg: the code of link and confirm, the user of unlink, the Telegram id of
\* webapp; sub: the row of the user the returned token names, 0 without token.
Call(op, arg, result) ==
    [op |-> op, arg |-> arg, result |-> result, sub |-> 0]


(***************************************************************************)
(* register                                                                *)
(***************************************************************************)
register(us, raw_username, raw_password) ==
    LET username == Strip(raw_username)
        password == Strip(raw_password)
    IN  IF Strip(raw_username) = <<>>
        THEN [users |-> us, result |-> Response(400, "username required")]
        ELSE IF Strip(raw_password) = <<>>
        THEN [users |-> us, result |-> Response(400, "password required")]
        ELSE IF Len(username) > MaxUsernameLen
        THEN [users |-> us, result |-> Response(400, "username too long")]
        ELSE IF Len(password) > MaxPasswordLen
        THEN [users |-> us, result |-> Response(400, "password too long")]
        ELSE IF UserByName(us, username) # 0
        THEN [users |-> us, result |-> Response(400, "Username already registered")]
        ELSE [users |-> Append(us, User(Len(us) + 1, username,
                                        get_password_hash(password), NoneV, NoneV)),
              result |-> Ok200]

\* register, db.add(new_user) and db.commit() for a request that passed the
\* checks: the insert fails on the unique username column when a row with the
\* name was committed after the lookup, and nothing catches the IntegrityError.
RegisterInsert(us, username, password) ==
    IF UserByName(us, username) # 0
    THEN [users |-> us, result |-> Error500]
    ELSE [users |-> Append(us, User(Len(us) + 1, username,
                                    get_password_hash(password), NoneV, NoneV)),
          result |-> Ok200]

(***************************************************************************)
(* telegram_link                                                           *)
(***************************************************************************)
\* .update({"used": 1}) on the rows of S
MarkUsed(ls, S) ==
    [i \in 1..Len(ls) |-> IF i \in S THEN [ls[i] EXCEPT !.used = 1] ELSE ls[i]]

\* expires: utcnow() + 15 minutes, rendered as an ISO string
LinkExpiry(t) == IsoFormat(t + LinkTTLMinutes)

\* One row per user: a later code overwrites the user's row instead of adding one.
LinkCommitRows_overwrite(ls, marked, user_id, code, t) ==
    IF LinkByCode(ls, code) # 0
    THEN [links |-> ls, result |-> Error500]
    ELSE IF \E i \in 1..Len(ls) : ls[i].user_id = user_id
    THEN [links |-> [ls EXCEPT ![CHOOSE i \in 1..Len(ls) : ls[i].user_id = user_id] =
                        [@ EXCEPT !.code = code, !.expires_at = LinkExpiry(t),
                                  !.used = 0]],
          result |-> Ok200]
    ELSE [links |-> Append(ls, TelegramLink(Len(ls) + 1, user_id, code, LinkExpiry(t))),
          result |-> Ok200]

\* db.add(link); db.commit(): the insert fails on the unique code column, and the
\* failed commit rolls the UPDATE back with it.
LinkCommitRows(ls, marked, user_id, code, t) ==
    IF LinkByCode(ls, code) # 0
    THEN [links |-> ls, result |-> Error500]
    ELSE [links |-> Append(MarkUsed(ls, marked),
                           TelegramLink(Len(ls) + 1, user_id, code, LinkExpiry(t))),
          result |-> Ok200]

\* telegram_link without the UPDATE that invalidates the earlier codes
telegram_link_keep_old(ls, user_id, code, t) ==
    LinkCommitRows(ls, {}, user_id, code, t)

telegram_link(ls, user_id, code, t) ==
    LinkCommitRows(ls, UnusedOf(ls, user_id), user_id, code, t)

(***************************************************************************)
(* telegram_unlink                                                         *)
(***************************************************************************)
\* The unlink without the restriction to the caller's row
telegram_unlink_all(us, user_id) ==
    [i \in 1..Len(us) |-> [us[i] EXCEPT !.telegram_chat_id = NoneV,
                                        !.telegram_username = NoneV]]

telegram_unlink(us, user_id) ==
    [us EXCEPT ![user_id].telegram_chat_id = NoneV,
               ![user_id].telegram_username = NoneV]

(***************************************************************************)
(* telegram_confirm                                                        *)
(***************************************************************************)
\* The expiry check with <= for <
CodeExpired_inclusive(link, t) ==
    IF link.expires_at.kind \in {"null", "empty"}
    THEN FALSE
    ELSE LET exp == IF link.expires_at.kind = "iso" THEN link.expires_at.t ELSE t - 1
         IN  exp <= t

\* if link.expires_at: ... exp < utcnow().replace(tzinfo=exp.tzinfo)
\* An unparseable string gives exp = utcnow() - 1 second.
CodeExpired(link, t) ==
    IF link.expires_at.kind \in {"null", "empty"}
    THEN FALSE
    ELSE LET exp == IF link.expires_at.kind = "iso" THEN link.expires_at.t ELSE t - 1
         IN  exp < t

\* The checks without the test of link.used
ConfirmCheck_skip_used(us, ls, t, code) ==
    LET lid == LinkByCode(ls, code)
    IN  IF lid = 0 THEN Response(404, "Code not found")
        ELSE IF CodeExpired(ls[lid], t) THEN Response(400, "Code expired")
        ELSE IF ls[lid].user_id \notin 1..Len(us) THEN Response(404, "User not found")
        ELSE Ok200

\* The checks with the expiry tested before link.used
ConfirmCheck_expiry_first(us, ls, t, code) ==
    LET lid == LinkByCode(ls, code)
    IN  IF lid = 0 THEN Response(404, "Code not found")
        ELSE IF CodeExpired(ls[lid], t) THEN Response(400, "Code expired")
        ELSE IF ls[lid].used # 0 THEN Response(400, "Code already used")
        ELSE IF ls[lid].user_id \notin 1..Len(us) THEN Response(404, "User not found")
        ELSE Ok200

\* The lookups and checks before the writes.
ConfirmCheck(us, ls, t, code) ==
    LET lid == LinkByCode(ls, code)
    IN  IF lid = 0 THEN Response(404, "Code not found")
        ELSE IF ls[lid].used # 0 THEN Response(400, "Code already used")
        ELSE IF CodeExpired(ls[lid], t) THEN Response(400, "Code expired")
        ELSE IF ls[lid].user_id \notin 1..Len(us) THEN Response(404, "User not found")
        ELSE Ok200

\* The writes without link.used = 1
ConfirmWrite_keep_unused(us, ls, lid, tid, tun) ==
    LET uid == ls[lid].user_id
    IN  [users |-> [us EXCEPT ![uid].telegram_chat_id = Str(tid),
                              ![uid].telegram_username = IF tun # "" THEN tun ELSE @],
         links |-> ls]

\* The writes with the chat id put on the first user row instead of the owner's
ConfirmWrite_first_user(us, ls, lid, tid, tun) ==
    [users |-> [us EXCEPT ![1].telegram_chat_id = Str(tid),
                          ![1].telegram_username = IF tun # "" THEN tun ELSE @],
     links |-> [ls EXCEPT ![lid].used = 1]]

\* user.telegram_chat_id = str(telegram_id); username when truthy; link.used = 1;
\* db.commit()
ConfirmWrite(us, ls, lid, tid, tun) ==
    LET uid == ls[lid].user_id
    IN  [users |-> [us EXCEPT ![uid].telegram_chat_id = Str(tid),
                              ![uid].telegram_username = IF tun # "" THEN tun ELSE @],
         links |-> [ls EXCEPT ![lid].used = 1]]

telegram_confirm(us, ls, t, code, tid, tun) ==
    LET outcome == ConfirmCheck(us, ls, t, code)
        w == ConfirmWrite(us, ls, LinkByCode(ls, code), tid, tun)
    IN  IF outcome = Ok200
        THEN [users |-> w.users, links |-> w.links, result |-> Ok200]
        ELSE [users |-> us, links |-> ls, result |-> outcome]

(***************************************************************************)
(* telegram_webapp_login, for initData whose signature verified and whose  *)
(* user object carries the id tid and the username tun (None when absent); *)
(* found is the row the query by telegram_chat_id returned.  The insert of *)
(* a second tg_<id> row violates the unique index on username; the handler *)
(* turns that exception into a 500.                                        *)
(***************************************************************************)
telegram_webapp_login(us, tid, tun, found) ==
    IF found # 0
    THEN [users |-> us, subject |-> found, result |-> Ok200]
    ELSE IF UserByName(us, TgUsername(tid)) # 0
    THEN [users |-> us, subject |-> 0,
          result |-> Response(500, "Login failed")]
    ELSE [users |-> Append(us, User(Len(us) + 1, TgUsername(tid),
                                    get_password_hash(RandomPassword),
                                    Str(tid), tun)),
          subject |-> Len(us) + 1, result |-> Ok200]

(***************************************************************************)
(* Access tokens.  A token is what jwt.encode makes of a claim set and a    *)
(* key: the claims it carries (sub: a username, exp: a minute) and the key  *)
(* its signature was computed with.  HS256 is modelled as unforgeable: the  *)
(* signature verifies under a key exactly when it was made with that key    *)
(* over these claims, so a token altered after signing carries the key of   *)
(* whoever re-signed it.  kind "garbage" is a string that is no JWT, kind   *)
(* "absent" a request without an Authorization bearer header.               *)
(***************************************************************************)
SECRET_KEY == "SECRET_KEY"

jwt_encode(claims, sub, exp, key) ==
    [kind |-> "jwt", key |-> key, claims |-> claims, sub |-> sub, exp |-> exp]

NoToken == [kind |-> "absent", key |-> "", claims |-> {}, sub |-> <<>>, exp |-> 0]
Garbage == [kind |-> "garbage", key |-> "", claims |-> {}, sub |-> <<>>, exp |-> 0]
\* The credentials of the last register or login request.
NoForm == [un |-> <<>>, pw |-> <<>>]

\* create_access_token({"sub": sub}) called at minute t
create_access_token(sub, t) ==
    jwt_encode({"sub", "exp"}, sub, t + TokenTTLMinutes, SECRET_KEY)

jwt_decode_ignore_exp(token, key, t) ==
    /\ token.kind = "jwt"
    /\ token.key = key

jwt_decode_any_signature(token, key, t) ==
    /\ token.kind = "jwt"
    /\ "exp" \in token.claims => ~(token.exp < t)

\* jwt.decode(token, key, algorithms=[ALGORITHM]) at minute t: TRUE when it
\* returns the payload, FALSE when it raises a JWTError (undecodable token,
\* signature mismatch, or an exp claim earlier than the current time).
jwt_decode(token, key, t) ==
    /\ token.kind = "jwt"
    /\ token.key = key
    /\ "exp" \in token.claims => ~(token.exp < t)

\* payload.get("sub"): the empty string stands for None as well, the
\* handlers only test `not username`.
PayloadSub(token) ==
    IF "sub" \in token.claims THEN token.sub ELSE <<>>

NotAuthenticated == Response(401, "Not authenticated")
InvalidToken == Response(401, "Invalid token")

\* GET /me: oauth2_scheme, then read_users_me
read_users_me(token, t) ==
    IF token.kind = "absent"
    THEN [result |-> NotAuthenticated, username |-> <<>>]
    ELSE IF ~jwt_decode(token, SECRET_KEY, t)
    THEN [result |-> InvalidToken, username |-> <<>>]
    ELSE IF PayloadSub(token) = <<>>
    THEN [result |-> InvalidToken, username |-> <<>>]
    ELSE [result |-> Ok200, username |-> PayloadSub(token)]

\* oauth2_scheme, then get_current_user: user is the row returned, 0 when the
\* dependency raises.
get_current_user(us, token, t) ==
    IF token.kind = "absent"
    THEN [result |-> NotAuthenticated, user |-> 0]
    ELSE IF ~jwt_decode(token, SECRET_KEY, t)
    THEN [result |-> InvalidToken, user |-> 0]
    ELSE IF PayloadSub(token) = <<>>
    THEN [result |-> InvalidToken, user |-> 0]
    ELSE IF UserByName(us, PayloadSub(token)) = 0
    THEN [result |-> Response(401, "User not found"), user |-> 0]
    ELSE [result |-> Ok200, user |-> UserByName(us, PayloadSub(token))]

InvalidCredentials == Response(401, "Invalid credentials")

login_tell_apart(us, username, password, t) ==
    LET user == UserByName(us, username)
    IN  IF user = 0
        THEN [result |-> Response(404, "User not found"), token |-> NoToken,
              subject |-> 0]
        ELSE IF ~verify_password(password, us[user].hashed_password)
        THEN [result |-> InvalidCredentials, token |-> NoToken, subject |-> 0]
        ELSE [result |-> Ok200,
              token |-> create_access_token(us[user].username, t),
              subject |-> user]

\* POST /token
login(us, username, password, t) ==
    LET user == UserByName(us, username)
    IN  IF user = 0
        THEN [result |-> InvalidCredentials, token |-> NoToken, subject |-> 0]
        ELSE IF ~verify_password(password, us[user].hashed_password)
        THEN [result |-> InvalidCredentials, token |-> NoToken, subject |-> 0]
        ELSE [result |-> Ok200,
              token |-> create_access_token(us[user].username, t),
              subject |-> user]

(***************************************************************************)
(* The events and chat_sessions tables.                                    *)
(***************************************************************************)
\* An events row; status "pending" on insert.
Event(id, owner_id, title, description, color, start_time, end_time) ==
    [id |-> id, title |-> title, description |-> description, color |-> color,
     start_time |-> start_time, end_time |-> end_time, owner_id |-> owner_id,
     status |-> "pending"]

\* The place of a deleted row: ids are serial and never given again.
\* start_time / end_time not given (None)
NoTime == [kind |-> "null", t |-> 0]

NoEvent == [id |-> 0, title |-> NoneV, description |-> NoneV, color |-> NoneV,
            start_time |-> NoTime, end_time |-> NoTime, owner_id |-> 0,
            status |-> "deleted"]

\* A chat_sessions row; timestamp is CURRENT_TIMESTAMP of the insert.
ChatMessage(id, user_id, role, content, timestamp) ==
    [id |-> id, user_id |-> user_id, role |-> role, content |-> content,
     timestamp |-> timestamp]

\* What the agent service answered last: the user id it acted for, the chat
\* rows it fed to the agent, the tool the agent called and the owner the tool
\* used.
NoReply == [status |-> 0, user_id |-> 0, history |-> <<>>, tool |-> "none",
            owner_id |-> 0]

(***************************************************************************)
(* wait_for_db: the readiness poll at import time, before the app exists.  *)
(***************************************************************************)
Retries == 30
Delay == 2


\* i: index of range(retries); slept: seconds spent in time.sleep
BootStart == [pc |-> "connect", i |-> 0, slept |-> 0, outcome |-> "none"]

\* try: connect, SELECT 1, return / except OperationalError
wait_for_db_attempt(b, outcome) ==
    IF outcome = "ok"
    THEN [b EXCEPT !.pc = "ready", !.outcome = outcome]
    ELSE IF outcome = "OperationalError"
    THEN [b EXCEPT !.pc = "sleep", !.outcome = outcome]
    ELSE [b EXCEPT !.pc = "raised", !.outcome = outcome]

\* The loop without the raise after it: wait_for_db returns when range(retries) ends
wait_for_db_sleep_no_raise(b) ==
    [b EXCEPT !.i = @ + 1,
              !.slept = @ + Delay,
              !.pc = IF b.i + 1 < Retries THEN "connect" ELSE "ready"]

\* time.sleep(delay); then the next i of range(retries), or past the loop
\* raise Exception("Database is not ready after maximum retries")
wait_for_db_sleep(b) ==
    [b EXCEPT !.i = @ + 1,
              !.slept = @ + Delay,
              !.pc = IF b.i + 1 < Retries THEN "connect" ELSE "raised"]

(***************************************************************************)
(* State after construction: empty tables, no request in flight.           *)
(***************************************************************************)
IdleProc == [pc |-> "idle", user |-> 0, code |-> 0, tid |-> 0, tun |-> "",
             link |-> 0, marked |-> {}, un |-> <<>>, pw |-> <<>>]

Init ==
    /\ users = <<>>
    /\ links = <<>>
    /\ now = 0
    /\ last = Call("none", 0, Response(0, ""))
    /\ okConfirms = [c \in Codes |-> 0]
    /\ proc = [p \in Procs |-> IdleProc]
    /\ bearer = NoToken
    /\ form = NoForm
    /\ initData = <<>>
    /\ boot = BootStart
    /\ events = <<>>
    /\ chat = <<>>
    /\ reply = NoReply

(***************************************************************************)
(* The handlers as atomic steps.                                           *)
(***************************************************************************)
Register ==
    \E un \in UsernameInputs, pw \in PasswordInputs :
        LET r == register(users, un, pw)
        IN  /\ Len(users) < MaxUsers
            /\ users' = r.users
            /\ last' = Call("register", 0, r.result)
            /\ UNCHANGED <<links, now, okConfirms, proc, bearer, form, initData, boot, events, chat, reply>>

\* user: the row get_current_user returned for the bearer token
RequestCode ==
    \E user \in UserIds, code \in GeneratedCodes(links) :
        LET r == telegram_link(links, user, code, now)
        IN  /\ links' = r.links
            /\ last' = Call("link", code, r.result)
            /\ UNCHANGED <<users, now, okConfirms, proc, bearer, form, initData, boot, events, chat, reply>>

ConfirmCode ==
    \E code \in Codes, tid \in TelegramIds, tun \in TelegramUsernames :
        LET r == telegram_confirm(users, links, now, code, tid, tun)
        IN  /\ users' = r.users
            /\ links' = r.links
            /\ last' = Call("confirm", code, r.result)
            /\ okConfirms' = IF r.result = Ok200
                             THEN [okConfirms EXCEPT ![code] = @ + 1]
                             ELSE okConfirms
            /\ UNCHANGED <<now, proc, bearer, form, initData, boot, events, chat, reply>>

Unlink ==
    \E user \in UserIds :
        /\ users' = telegram_unlink(users, user)
        /\ last' = Call("unlink", user, Ok200)
        /\ UNCHANGED <<links, now, okConfirms, proc, bearer, form, initData, boot, events, chat, reply>>

WebappLogin ==
    \E tid \in TelegramIds, tun \in {NoneV, "neo"} :
      \E found \in FirstByChatId(users, Str(tid)) :
        LET r == telegram_webapp_login(users, tid, tun, found)
        IN  /\ Len(r.users) <= MaxUsers
            /\ users' = r.users
            /\ last' = [Call("webapp", tid, r.result) EXCEPT !.sub = r.subject]
            /\ UNCHANGED <<links, now, okConfirms, proc, bearer, form, initData, boot, events, chat, reply>>

\* Time passes between requests.
Tick ==
    \E t \in Instants :
        /\ t > now
        /\ now' = t
        /\ UNCHANGED <<users, links, last, okConfirms, proc, bearer, form, initData, boot, events, chat, reply>>

\* Register, link, confirm and unlink requests, one at a time.
Next ==
    \/ Register
    \/ RequestCode
    \/ ConfirmCode
    \/ Unlink
    \/ Tick

Spec == Init /\ [][Next]_vars

\* The same with WebApp logins.
NextGateway ==
    \/ Register
    \/ RequestCode
    \/ ConfirmCode
    \/ Unlink
    \/ WebappLogin
    \/ Tick

SpecGateway == Init /\ [][NextGateway]_vars


(***************************************************************************)
(* The handlers as transactions (READ COMMITTED): telegram_link runs its   *)
(* UPDATE at once and holds the row locks until db.commit() inserts the    *)
(* new row; telegram_confirm reads the link and the user, and db.commit()  *)
(* flushes both row updates.  A statement that needs a row locked by       *)
(* another transaction waits for that transaction to end.                  *)
(***************************************************************************)
\* Rows locked by the transactions of the other workers.
LockedByOthers(p) ==
    UNION {proc[q].marked : q \in Procs \ {p}}

\* telegram_link, the UPDATE statement
LinkBegin(p) ==
    \E user \in UserIds :
        /\ proc[p].pc = "idle"
        /\ UnusedOf(links, user) \cap LockedByOthers(p) = {}
        /\ proc' = [proc EXCEPT ![p] = [IdleProc EXCEPT !.pc = "link_updated",
                                                        !.user = user,
                                                        !.marked = UnusedOf(links, user)]]
        /\ UNCHANGED <<users, links, now, last, okConfirms, bearer, form, initData, boot, events, chat, reply>>

\* telegram_link, code generation, db.add(link) and db.commit()
LinkCommit(p) ==
    \E code \in GeneratedCodes(links) :
        LET r == LinkCommitRows(links, proc[p].marked, proc[p].user, code, now)
        IN  /\ proc[p].pc = "link_updated"
            /\ links' = r.links
            /\ proc' = [proc EXCEPT ![p] = IdleProc]
            /\ UNCHANGED <<users, now, last, okConfirms, bearer, form, initData, boot, events, chat, reply>>

\* telegram_confirm, the two queries and the checks; a failed check ends the call
ConfirmBegin(p) ==
    \E code \in Codes, tid \in TelegramIds, tun \in TelegramUsernames :
        LET outcome == ConfirmCheck(users, links, now, code)
        IN  /\ proc[p].pc = "idle"
            /\ proc' = IF outcome = Ok200
                       THEN [proc EXCEPT ![p] = [IdleProc EXCEPT
                                !.pc = "confirm_checked", !.code = code,
                                !.link = LinkByCode(links, code),
                                !.tid = tid, !.tun = tun]]
                       ELSE proc
            /\ UNCHANGED <<users, links, now, last, okConfirms, bearer, form, initData, boot, events, chat, reply>>

\* telegram_confirm, the assignments and db.commit()
ConfirmCommit(p) ==
    LET w == ConfirmWrite(users, links, proc[p].link, proc[p].tid, proc[p].tun)
    IN  /\ proc[p].pc = "confirm_checked"
        /\ proc[p].link \notin LockedByOthers(p)
        /\ users' = w.users
        /\ links' = w.links
        /\ okConfirms' = [okConfirms EXCEPT ![proc[p].code] = @ + 1]
        /\ proc' = [proc EXCEPT ![p] = IdleProc]
        /\ UNCHANGED <<now, last, bearer, form, initData, boot, events, chat, reply>>

NextConc ==
    \/ Register
    \/ Unlink
    \/ \E p \in Procs : LinkBegin(p)
    \/ \E p \in Procs : LinkCommit(p)
    \/ \E p \in Procs : ConfirmBegin(p)
    \/ \E p \in Procs : ConfirmCommit(p)

SpecConc == Init /\ [][NextConc]_vars


(***************************************************************************)
(* The session endpoints: register, login and the two token checks, with   *)
(* the credentials of the request kept in form and the token the client    *)
(* presents in bearer.                                                     *)
(***************************************************************************)
\* A string of n characters.
Fill(n) == [i \in 1..n |-> "x"]

\* Raw username and password strings of register and login: blank, padded,
\* plain, and the longest accepted and shortest rejected lengths.
SignupUsernames ==
    {<<" ">>, <<"a">>, <<" ", "a">>, Fill(MaxUsernameLen), Fill(MaxUsernameLen + 1)}
SignupPasswords ==
    {<<>>, <<"p">>, <<"p", " ">>, Fill(MaxPasswordLen), Fill(MaxPasswordLen + 1)}

\* The instants (minutes) of the session requests: at the start, a token's
\* lifetime after the start, and a minute after that.
SessionInstants == {0, TokenTTLMinutes, TokenTTLMinutes + 1}

\* Tokens a client can present that the server did not issue: a string that
\* is no JWT, the held token re-signed with another key (any altered byte
\* gives a signature the server's key does not verify), a token for a chosen
\* subject signed with another key, and a token under the server's key
\* whose payload has no sub claim.
PresentedTokens(token, t) ==
    {Garbage,
     [token EXCEPT !.kind = "jwt", !.key = "other"],
     jwt_encode({"sub", "exp"}, <<"a">>, t + TokenTTLMinutes, "other"),
     jwt_encode({"exp"}, <<>>, t + TokenTTLMinutes, SECRET_KEY)}

\* POST /register
Signup ==
    \E un \in SignupUsernames, pw \in SignupPasswords :
        LET r == register(users, un, pw)
        IN  /\ Len(users) < MaxUsers
            /\ users' = r.users
            /\ form' = [un |-> un, pw |-> pw]
            /\ last' = Call("register", 0, r.result)
            /\ UNCHANGED <<links, now, okConfirms, proc, bearer, initData, boot, events, chat, reply>>

\* POST /token; the client goes on with the token of the response or keeps
\* the one it has.
Login ==
    \E un \in SignupUsernames, pw \in SignupPasswords, adopt \in BOOLEAN :
        LET r == login(users, un, pw, now)
        IN  /\ form' = [un |-> un, pw |-> pw]
            /\ last' = [Call("login", 0, r.result) EXCEPT !.sub = r.subject]
            /\ bearer' = IF adopt /\ r.result = Ok200 THEN r.token ELSE bearer
            /\ UNCHANGED <<users, links, now, okConfirms, proc, initData, boot, events, chat, reply>>

\* GET /me with the token the client holds or one the server did not issue
Me ==
    \E token \in {bearer} \cup PresentedTokens(bearer, now) :
        LET r == read_users_me(token, now)
        IN  /\ bearer' = token
            /\ last' = [Call("me", 0, r.result) EXCEPT
                           !.sub = UserByName(users, r.username)]
            /\ UNCHANGED <<users, links, now, okConfirms, proc, form, initData, boot, events, chat, reply>>

\* GET /profile (get_current_user and a read of the row), likewise
Profile ==
    \E token \in {bearer} \cup PresentedTokens(bearer, now) :
        LET r == get_current_user(users, token, now)
        IN  /\ bearer' = token
            /\ last' = [Call("profile", 0, r.result) EXCEPT !.sub = r.user]
            /\ UNCHANGED <<users, links, now, okConfirms, proc, form, initData, boot, events, chat, reply>>

\* Time passes between requests.
Elapse ==
    \E t \in SessionInstants :
        /\ t > now
        /\ now' = t
        /\ UNCHANGED <<users, links, last, okConfirms, proc, bearer, form, initData, boot, events, chat, reply>>

NextAuth ==
    \/ Signup
    \/ Login
    \/ Me
    \/ Profile
    \/ Elapse

SpecAuth == Init /\ [][NextAuth]_vars


(***************************************************************************)
(* The copy of the service in src/auth-service/main.py: its register       *)
(* stores the request's strings as they come; its login is the same.       *)
(***************************************************************************)
root_register(us, username, password) ==
    IF UserByName(us, username) # 0
    THEN [users |-> us, result |-> Response(400, "Username already registered")]
    ELSE [users |-> Append(us, User(Len(us) + 1, username,
                                    get_password_hash(password), NoneV, NoneV)),
          result |-> Ok200]

\* POST /register of src/auth-service
RootSignup ==
    \E un \in SignupUsernames, pw \in SignupPasswords :
        LET r == root_register(users, un, pw)
        IN  /\ Len(users) < MaxUsers
            /\ users' = r.users
            /\ form' = [un |-> un, pw |-> pw]
            /\ last' = Call("register", 0, r.result)
            /\ UNCHANGED <<links, now, okConfirms, proc, bearer, initData, boot, events, chat, reply>>

NextRoot ==
    \/ RootSignup
    \/ Login

SpecRoot == Init /\ [][NextRoot]_vars


(***************************************************************************)
(* The session with the operations that run between two uses of a token:   *)
(* change-password and profile updates by the token's holder, link,        *)
(* confirm and unlink requests, and further logins.                        *)
(***************************************************************************)
\* ProfileUpdate.theme and ProfileUpdate.hide_done (timezone absent); None
\* leaves the column as it is.
ThemeInputs == {NoneV, "light"}
HideDoneInputs == {NoneV, "true"}

\* bool_to_int
bool_to_int(b) == IF b = "true" THEN 1 ELSE 0

\* PUT /profile for the row get_current_user returned
update_profile(us, user, theme, hide_done) ==
    [us EXCEPT ![user].theme = IF theme # NoneV THEN theme ELSE @,
               ![user].hide_done = IF hide_done # NoneV
                                   THEN bool_to_int(hide_done) ELSE @]

change_password_and_rename(us, user, old_password, new_password) ==
    IF ~verify_password(old_password, us[user].hashed_password)
    THEN [users |-> us, result |-> Response(400, "old password wrong")]
    ELSE [users |-> [us EXCEPT ![user].hashed_password =
                                     get_password_hash(new_password),
                               ![user].username = <<>>],
          result |-> Ok200]

\* PUT /change-password for the row get_current_user returned
change_password(us, user, old_password, new_password) ==
    IF ~verify_password(old_password, us[user].hashed_password)
    THEN [users |-> us, result |-> Response(400, "old password wrong")]
    ELSE [users |-> [us EXCEPT ![user].hashed_password =
                                     get_password_hash(new_password)],
          result |-> Ok200]

ChangePassword ==
    \E old \in PasswordInputs, new \in PasswordInputs :
        LET who == get_current_user(users, bearer, now)
            r == change_password(users, who.user, old, new)
        IN  /\ users' = IF who.result = Ok200 THEN r.users ELSE users
            /\ last' = IF who.result = Ok200
                       THEN [Call("change-password", 0, r.result) EXCEPT
                                !.sub = who.user]
                       ELSE Call("change-password", 0, who.result)
            /\ UNCHANGED <<links, now, okConfirms, proc, bearer, form, initData, boot, events, chat, reply>>

UpdateProfile ==
    \E theme \in ThemeInputs, hide_done \in HideDoneInputs :
        LET who == get_current_user(users, bearer, now)
        IN  /\ users' = IF who.result = Ok200
                        THEN update_profile(users, who.user, theme, hide_done)
                        ELSE users
            /\ last' = [Call("update-profile", 0, who.result) EXCEPT
                           !.sub = who.user]
            /\ UNCHANGED <<links, now, okConfirms, proc, bearer, form, initData, boot, events, chat, reply>>

\* POST /token in a session: a further login, of the same or of another user
Relogin ==
    \E un \in UsernameInputs, pw \in PasswordInputs, adopt \in BOOLEAN :
        LET r == login(users, un, pw, now)
        IN  /\ last' = [Call("login", 0, r.result) EXCEPT !.sub = r.subject]
            /\ bearer' = IF adopt /\ r.result = Ok200 THEN r.token ELSE bearer
            /\ UNCHANGED <<users, links, now, okConfirms, proc, form, initData, boot, events, chat, reply>>

\* POST /telegram/link with the token the client holds
LinkWithToken ==
    \E code \in GeneratedCodes(links) :
        LET who == get_current_user(users, bearer, now)
            r == telegram_link(links, who.user, code, now)
        IN  /\ links' = IF who.result = Ok200 THEN r.links ELSE links
            /\ last' = IF who.result = Ok200
                       THEN [Call("link", code, r.result) EXCEPT !.sub = who.user]
                       ELSE Call("link", 0, who.result)
            /\ UNCHANGED <<users, now, okConfirms, proc, bearer, form, initData, boot, events, chat, reply>>

\* DELETE /telegram/unlink with the token the client holds
UnlinkWithToken ==
    LET who == get_current_user(users, bearer, now)
    IN  /\ users' = IF who.result = Ok200
                    THEN telegram_unlink(users, who.user)
                    ELSE users
        /\ last' = Call("unlink", who.user, who.result)
        /\ UNCHANGED <<links, now, okConfirms, proc, bearer, form, initData, boot, events, chat, reply>>

\* The session starts after POST /register has created the account of "a".
InitSession ==
    /\ users = register(<<>>, <<"a">>, <<"p">>).users
    /\ links = <<>>
    /\ now = 0
    /\ last = Call("register", 0, Ok200)
    /\ okConfirms = [c \in Codes |-> 0]
    /\ proc = [p \in Procs |-> IdleProc]
    /\ bearer = NoToken
    /\ form = NoForm
    /\ initData = <<>>
    /\ boot = BootStart
    /\ events = <<>>
    /\ chat = <<>>
    /\ reply = NoReply

NextSession ==
    \/ Relogin
    \/ ChangePassword
    \/ UpdateProfile
    \/ LinkWithToken
    \/ ConfirmCode
    \/ UnlinkWithToken
    \/ Elapse

SpecSession == InitSession /\ [][NextSession]_vars


(***************************************************************************)
(* Telegram WebApp initData.  The raw string is a sequence of key=value    *)
(* fields joined by '&'; a field is its key, its raw (percent-encoded)     *)
(* value and, for a hash field, the digest its hex digits spell.           *)
(***************************************************************************)
MaxFields == 3

BOT_TOKEN == "BOT_TOKEN"

\* hashlib.sha256(x).digest() and hmac.new(key, msg, sha256).hexdigest(),
\* both taken as injective
sha256(x) == <<"sha256", x>>
hmac_new(key, msg) == [key |-> key, msg |-> msg]
NoDigest == [key |-> <<>>, msg |-> <<>>]

Field(key, value) == [key |-> key, value |-> value, digest |-> NoDigest]
\* hash=<hex of digest>
HashField(digest) == [key |-> "hash", value |-> "hex", digest |-> digest]
\* hash= with nothing after the '='
BlankHashField == [key |-> "hash", value |-> "", digest |-> NoDigest]

FieldKeys == {"auth_date", "user"}
\* Raw values: blank, a number, the same number percent-encoded, malformed
\* JSON, a user object with a numeric id, a user object with a string id.
FieldValues == {"", "1", "%31", "{", "{\"id\":1}", "{\"id\":\"x\"}"}

\* urllib.parse.unquote of a raw value
Unquote(raw) == IF raw = "%31" THEN "1" ELSE raw

\* The order of str on the keys and on the values (by code point).
KeyOrder == <<"auth_date", "user">>
ValueOrder == <<"", "%31", "1", "{", "{\"id\":\"x\"}", "{\"id\":1}">>
Rank(order, x) == CHOOSE i \in 1..Len(order) : order[i] = x

\* (key, value) tuples compared as Python compares them
PairLeq(a, b) ==
    \/ Rank(KeyOrder, a[1]) < Rank(KeyOrder, b[1])
    \/ /\ a[1] = b[1]
       /\ Rank(ValueOrder, a[2]) <= Rank(ValueOrder, b[2])

RECURSIVE Insert(_, _)
Insert(pair, sorted) ==
    IF sorted = <<>> THEN <<pair>>
    ELSE IF PairLeq(pair, Head(sorted)) THEN <<pair>> \o sorted
    ELSE <<Head(sorted)>> \o Insert(pair, Tail(sorted))

\* list.sort() of a list of (key, value) tuples
RECURSIVE SortPairs(_)
SortPairs(pairs) ==
    IF pairs = <<>> THEN <<>> ELSE Insert(Head(pairs), SortPairs(Tail(pairs)))

\* urllib.parse.parse_qs(init_data): fields with a blank value are dropped
\* (keep_blank_values is False), the values of a repeated key are collected
\* in order.  ParsedKeys are the keys of the dict, FirstOf(d, k) the index
\* of the field that gives parsed_data[k][0].
ParsedKeys(d) == {d[i].key : i \in {j \in 1..Len(d) : d[j].value # ""}}
FirstOf(d, k) ==
    CHOOSE i \in 1..Len(d) :
        /\ d[i].key = k
        /\ d[i].value # ""
        /\ \A j \in 1..Len(d) : (d[j].key = k /\ d[j].value # "") => i <= j

\* The (key, values[0]) tuples of the keys other than hash, as a list.
RECURSIVE DataPairs(_, _)
DataPairs(d, keys) ==
    IF keys = {} THEN <<>>
    ELSE LET k == CHOOSE x \in keys : TRUE
         IN  <<<<k, Unquote(d[FirstOf(d, k)].value)>>>>
               \o DataPairs(d, keys \ {k})

\* The alternative parsing: init_data.split('&'), every pair that has an '='
\* and does not start with 'hash=', split at the first '=', not decoded.
RECURSIVE RawPairs(_)
RawPairs(d) ==
    IF d = <<>> THEN <<>>
    ELSE IF Head(d).key = "hash" THEN RawPairs(Tail(d))
    ELSE <<<<Head(d).key, Head(d).value>>>> \o RawPairs(Tail(d))

\* data_check_string: the sorted pairs; '\n'.join of key=value is taken as
\* injective on them.  The alternative parsing is used when the string
\* built from parse_qs is empty.
data_check_string(d) ==
    LET pairs == SortPairs(DataPairs(d, ParsedKeys(d) \ {"hash"}))
    IN  IF pairs # <<>> THEN pairs ELSE SortPairs(RawPairs(d))

\* json.loads of the user field: whether it decodes, whether the value is
\* an object (a dict), and the object's id ("" when it has none).
json_loads(text) ==
    IF text = "{" THEN [decodes |-> FALSE, object |-> FALSE, id |-> ""]
    ELSE IF text = "{\"id\":1}" THEN [decodes |-> TRUE, object |-> TRUE, id |-> "1"]
    ELSE IF text = "{\"id\":\"x\"}" THEN [decodes |-> TRUE, object |-> TRUE, id |-> "x"]
    ELSE [decodes |-> TRUE, object |-> FALSE, id |-> ""]

NoJson == [decodes |-> FALSE, object |-> FALSE, id |-> ""]

\* verify_telegram_webapp_data(init_data, bot_token) with the bot token set
verify_telegram_webapp_data(d, bot_token) ==
    IF d = <<>>
    THEN [result |-> Response(401, "No init data provided"), user |-> NoJson]
    ELSE IF "hash" \notin ParsedKeys(d)
    THEN [result |-> Response(401, "Missing hash in initData"), user |-> NoJson]
    ELSE IF d[FirstOf(d, "hash")].digest
              # hmac_new(sha256(bot_token), data_check_string(d))
    THEN [result |-> Response(401, "Invalid signature"), user |-> NoJson]
    ELSE IF "user" \notin ParsedKeys(d)
    THEN [result |-> Response(401, "Missing user data"), user |-> NoJson]
    ELSE IF ~json_loads(Unquote(d[FirstOf(d, "user")].value)).decodes
    THEN [result |-> Response(401, "Invalid user data format"), user |-> NoJson]
    ELSE [result |-> Ok200,
          user |-> json_loads(Unquote(d[FirstOf(d, "user")].value))]


(***************************************************************************)
(* POST /tg/webapp/login from the raw initData: the verifier, then the     *)
(* lookup or creation of the account.  id is the user object's id as       *)
(* str() renders it; user_data.get on a value that is no dict raises       *)
(* AttributeError, which the handler's `except Exception` turns into 500.  *)
(***************************************************************************)
post_tg_webapp_login(us, d, found) ==
    LET v == verify_telegram_webapp_data(d, BOT_TOKEN)
    IN  IF v.result # Ok200
        THEN [users |-> us, subject |-> 0, result |-> v.result]
        ELSE IF ~v.user.object
        THEN [users |-> us, subject |-> 0,
              result |-> Response(500, "Login failed")]
        ELSE IF v.user.id = ""
        THEN [users |-> us, subject |-> 0,
              result |-> Response(401, "Missing user ID in Telegram data")]
        ELSE IF found # 0
        THEN [users |-> us, subject |-> found, result |-> Ok200]
        ELSE IF UserByName(us, TgName(v.user.id)) # 0
        THEN [users |-> us, subject |-> 0,
              result |-> Response(500, "Login failed")]
        ELSE [users |-> Append(us, User(Len(us) + 1, TgName(v.user.id),
                                        get_password_hash(RandomPassword),
                                        v.user.id, NoneV)),
              subject |-> Len(us) + 1, result |-> Ok200]

\* What the platform signs: every field but hash, decoded, sorted.
RECURSIVE DecodedPairs(_)
DecodedPairs(d) ==
    IF d = <<>> THEN <<>>
    ELSE IF Head(d).key = "hash" THEN DecodedPairs(Tail(d))
    ELSE <<<<Head(d).key, Unquote(Head(d).value)>>>> \o DecodedPairs(Tail(d))

CanonicalString(d) == SortPairs(DecodedPairs(d))

\* The client writes one more field of the initData string.
AddField ==
    \E key \in FieldKeys, value \in FieldValues :
        /\ Len(initData) < MaxFields
        /\ initData' = Append(initData, Field(key, value))
        /\ UNCHANGED <<users, links, now, last, okConfirms, proc, bearer, form, boot, events, chat, reply>>

\* The client writes a hash field: the platform's digest of the fields
\* written so far, a digest made with another bot's token, or no digits.
AddHash ==
    \E field \in {HashField(hmac_new(sha256(BOT_TOKEN), CanonicalString(initData))),
                  HashField(hmac_new(sha256("other"), CanonicalString(initData))),
                  BlankHashField} :
        /\ Len(initData) < MaxFields
        /\ initData' = Append(initData, field)
        /\ UNCHANGED <<users, links, now, last, okConfirms, proc, bearer, form, boot, events, chat, reply>>

\* POST /tg/webapp/login with the string written so far
PostWebapp ==
    \E found \in FirstByChatId(users,
                   verify_telegram_webapp_data(initData, BOT_TOKEN).user.id) :
        LET r == post_tg_webapp_login(users, initData, found)
        IN  /\ Len(r.users) <= MaxUsers
            /\ users' = r.users
            /\ last' = [Call("tg/webapp/login", 0, r.result) EXCEPT
                           !.sub = r.subject]
            /\ UNCHANGED <<links, now, okConfirms, proc, bearer, form, initData, boot, events, chat, reply>>

NextVerifier ==
    \/ AddField
    \/ AddHash
    \/ PostWebapp

SpecVerifier == Init /\ [][NextVerifier]_vars


(***************************************************************************)
(* The Telegram bot (src/VKR/telegram-bot/bot.py, src/telegram-bot/bot.py) *)
(* in front of the service.                                                *)
(***************************************************************************)
\* unlink_cmd for a message of the Telegram user tid: the bot sends
\* DELETE /telegram/unlink with the query parameter telegram_id and no
\* Authorization header, and replies by the status of the response (the
\* bot's texts are in Russian: "Unlinked." and "Could not unlink.").  The
\* endpoint takes no such parameter; it unlinks the row of get_current_user.
unlink_cmd(us, tid, t) ==
    LET who == get_current_user(us, NoToken, t)
    IN  IF who.result = Ok200
        THEN [users |-> telegram_unlink(us, who.user), status |-> 200,
              reply |-> "Unlinked."]
        ELSE [users |-> us, status |-> who.result.status,
              reply |-> "Could not unlink."]

\* A Telegram user sends /unlink to the bot.
BotUnlink ==
    \E tid \in TelegramIds :
        LET r == unlink_cmd(users, tid, now)
        IN  /\ users' = r.users
            /\ last' = Call("/unlink", tid, Response(r.status, r.reply))
            /\ UNCHANGED <<links, now, okConfirms, proc, bearer, form, initData, boot, events, chat, reply>>

NextBot ==
    \/ Register
    \/ RequestCode
    \/ ConfirmCode
    \/ BotUnlink

SpecBot == Init /\ [][NextBot]_vars


(***************************************************************************)
(* Link rows as the telegram_links table admits them: expires_at is a      *)
(* nullable String column, so a row may hold NULL, '' or any text.         *)
(***************************************************************************)


\* One account and one unused link row of it, with any expiry the column admits.
InitStored ==
    /\ users = register(<<>>, <<"a">>, <<"p">>).users
    /\ \E e \in {IsoFormat(LinkTTLMinutes), NullExpiry, EmptyExpiry, CorruptExpiry} : links = <<TelegramLink(1, 1, 1, e)>>
    /\ now = 0
    /\ last = Call("none", 0, Response(0, ""))
    /\ okConfirms = [c \in Codes |-> 0]
    /\ proc = [p \in Procs |-> IdleProc]
    /\ bearer = NoToken
    /\ form = NoForm
    /\ initData = <<>>
    /\ boot = BootStart
    /\ events = <<>>
    /\ chat = <<>>
    /\ reply = NoReply

SpecStored == InitStored /\ [][Next]_vars


(***************************************************************************)
(* Startup: the module calls wait_for_db() before it creates the tables    *)
(* and the app, so requests are served only after it has returned.         *)
(***************************************************************************)
Connect ==
    \E outcome \in {"ok", "OperationalError", "Exception"} :
        /\ boot.pc = "connect"
        /\ boot' = wait_for_db_attempt(boot, outcome)
        /\ UNCHANGED <<users, links, now, last, okConfirms, proc, bearer, form,
                       initData, events, chat, reply>>

Sleep ==
    /\ boot.pc = "sleep"
    /\ boot' = wait_for_db_sleep(boot)
    /\ UNCHANGED <<users, links, now, last, okConfirms, proc, bearer, form,
                   initData, events, chat, reply>>

\* wait_for_db() has returned: create_all, app = FastAPI(...), requests
Serve ==
    /\ boot.pc = "ready"
    /\ boot' = [boot EXCEPT !.pc = "serving"]
    /\ UNCHANGED <<users, links, now, last, okConfirms, proc, bearer, form,
                   initData, events, chat, reply>>

NextBoot ==
    \/ Connect
    \/ Sleep
    \/ Serve

\* The import runs on one thread with nothing else to schedule: a step that
\* can be taken is taken.
SpecBoot == Init /\ [][NextBoot]_vars /\ WF_vars(NextBoot)


(***************************************************************************)
(* The agent service: /ask and /chat/history over the same database.       *)
(***************************************************************************)
MaxMessages == 4
MaxLimit == 3
MaxEvents == 2
AskHistoryLimit == 20
PageHistoryLimit == 100

\* The rows of a set of chat rows in ascending timestamp order
RECURSIVE OrderByTimestamp(_, _)
OrderByTimestamp(ch, ids) ==
    IF ids = {}
    THEN <<>>
    ELSE LET first == CHOOSE i \in ids : \A j \in ids : ch[i].timestamp <= ch[j].timestamp
         IN  <<ch[first]>> \o OrderByTimestamp(ch, ids \ {first})

\* SELECT role, content, timestamp FROM chat_sessions WHERE user_id = :user_id
\* ORDER BY timestamp ASC LIMIT :limit
get_chat_history(ch, user_id, limit) ==
    LET rows == OrderByTimestamp(ch, {i \in 1..Len(ch) : ch[i].user_id = user_id})
    IN  IF Len(rows) <= limit THEN rows ELSE SubSeq(rows, 1, limit)

\* INSERT INTO chat_sessions ... CURRENT_TIMESTAMP: later than every stored row
save_chat_message(ch, user_id, role, content) ==
    Append(ch, ChatMessage(Len(ch) + 1, user_id, role, content, Len(ch) + 1))

\* get_user_id_from_token: 0 for None
get_user_id_from_token(us, authorization, t) ==
    IF authorization.kind = "absent" THEN 0
    ELSE IF ~jwt_decode(authorization, SECRET_KEY, t) THEN 0
    ELSE IF PayloadSub(authorization) = <<>> THEN 0
    ELSE UserByName(us, PayloadSub(authorization))


\* tools.add_event_to_db with a well-formed input string: owner_id = get_user_id()
add_event_to_db(evs, owner_id) ==
    Append(evs, Event(Len(evs) + 1, owner_id, "t", "d", "green",
                      IsoFormat(0), IsoFormat(60)))


\* POST /ask: user_id from the body, else from the token; 401 without one;
\* history; set_user_id; the agent and its tools; clear_user_id; the two
\* save_chat_message calls (which fail on a user_id that is no users row: the
\* handler then answers {"error": ...} with status 200).
ask_agent(us, evs, ch, body_user_id, authorization, run, t) ==
    LET user_id == IF body_user_id # 0 THEN body_user_id
                   ELSE get_user_id_from_token(us, authorization, t)
        history == get_chat_history(ch, user_id, AskHistoryLimit)
        called == run \in {"add_event_to_db", "get_events_by_user"}
        evs2 == IF run = "add_event_to_db" THEN add_event_to_db(evs, user_id) ELSE evs
        answered == [status |-> 200, user_id |-> user_id, history |-> history,
                     tool |-> IF called THEN run ELSE "none",
                     owner_id |-> IF called THEN user_id ELSE 0]
    IN  IF user_id = 0
        THEN [events |-> evs, chat |-> ch, reply |-> [NoReply EXCEPT !.status = 401]]
        ELSE IF run = "raise" \/ user_id \notin 1..Len(us)
        THEN [events |-> evs2, chat |-> ch, reply |-> answered]
        ELSE [events |-> evs2,
              chat |-> save_chat_message(save_chat_message(ch, user_id, "user", "q"),
                                         user_id, "assistant", "a"),
              reply |-> answered]

\* GET /chat/history
get_chat_history_endpoint(us, ch, authorization, t) ==
    LET user_id == get_user_id_from_token(us, authorization, t)
    IN  IF user_id = 0
        THEN [NoReply EXCEPT !.status = 401]
        ELSE [NoReply EXCEPT !.status = 200, !.user_id = user_id,
                             !.history = get_chat_history(ch, user_id, PageHistoryLimit)]

\* The Authorization headers a client can send: none, a string that is no
\* token, or the token a login of one of the accounts returned.
Authorizations(us, t) ==
    {NoToken, Garbage} \cup {create_access_token(us[i].username, t) : i \in 1..Len(us)}


Ask ==
    \E body_user_id \in 0..(MaxUsers + 1), authorization \in Authorizations(users, now),
       run \in {"answer", "add_event_to_db", "get_events_by_user", "raise"} :
        LET r == ask_agent(users, events, chat, body_user_id, authorization, run, now)
        IN  /\ Len(r.chat) <= MaxMessages
            /\ Len(r.events) <= MaxEvents
            /\ events' = r.events
            /\ chat' = r.chat
            /\ reply' = r.reply
            /\ last' = Call("ask", body_user_id, Response(r.reply.status, ""))
            /\ bearer' = authorization
            /\ UNCHANGED <<users, links, now, okConfirms, proc, form, initData, boot>>

ChatHistory ==
    \E authorization \in Authorizations(users, now) :
        /\ reply' = get_chat_history_endpoint(users, chat, authorization, now)
        /\ last' = Call("chat/history", 0, Response(reply'.status, ""))
        /\ bearer' = authorization
        /\ UNCHANGED <<users, links, now, okConfirms, proc, form, initData, boot,
                       events, chat>>

\* Two registered accounts and empty events and chat tables.
InitAgent ==
    /\ users = register(register(<<>>, <<"a">>, <<"p">>).users, <<"b">>, <<"p">>).users
    /\ links = <<>>
    /\ now = 0
    /\ last = Call("none", 0, Response(0, ""))
    /\ okConfirms = [c \in Codes |-> 0]
    /\ proc = [p \in Procs |-> IdleProc]
    /\ bearer = NoToken
    /\ form = NoForm
    /\ initData = <<>>
    /\ boot = BootStart
    /\ events = <<>>
    /\ chat = <<>>
    /\ reply = NoReply

NextAgent ==
    \/ Ask
    \/ ChatHistory

SpecAgent == InitAgent /\ [][NextAgent]_vars

\* db_utils.get_chat_history called with a limit of the caller's choice
GetChatHistory ==
    \E user_id \in UserIds, limit \in 1..MaxLimit :
        /\ reply' = [NoReply EXCEPT !.status = 200, !.user_id = user_id,
                                    !.history = get_chat_history(chat, user_id, limit)]
        /\ last' = Call("get_chat_history", limit, Response(200, ""))
        /\ UNCHANGED <<users, links, now, okConfirms, proc, bearer, form, initData,
                       boot, events, chat>>

NextChat ==
    \/ Ask
    \/ GetChatHistory

SpecChat == InitAgent /\ [][NextChat]_vars


(***************************************************************************)
(* The event routes of the auth service.  user is the row get_current_user *)
(* returned for the request's token.                                       *)
(***************************************************************************)
OneDay == 1440
EventNotFound == Response(404, "Event not found")

\* EventCreate bodies: title, optional start_time and end_time (the start
\* possibly a string fromisoformat rejects)
EventCreates ==
    [title : {"t"}, description : {NoneV}, color : {"#3788d8"},
     start_time : {NoTime, IsoFormat(0), CorruptExpiry},
     end_time : {NoTime, IsoFormat(60)}]

\* EventUpdate bodies: nothing set, the texts set, the times set
EventUpdates ==
    { [title |-> NoneV, description |-> NoneV, color |-> NoneV,
       start_time |-> NoTime, end_time |-> NoTime],
      [title |-> "t2", description |-> "d2", color |-> "red",
       start_time |-> NoTime, end_time |-> NoTime],
      [title |-> NoneV, description |-> NoneV, color |-> NoneV,
       start_time |-> IsoFormat(15), end_time |-> IsoFormat(16)] }

\* POST /events at minute t: the defaults of a missing start or end
create_event(evs, user, event, t) ==
    LET start_time == IF event.start_time # NoTime THEN event.start_time
                      ELSE IsoFormat(t)
        end_time == IF event.end_time # NoTime THEN event.end_time
                    ELSE IF event.start_time = NoTime THEN IsoFormat(t + OneDay)
                    ELSE IF event.start_time.kind = "iso"
                    THEN IsoFormat(event.start_time.t + OneDay)
                    ELSE IsoFormat(t + OneDay)
    IN  [events |-> Append(evs, Event(Len(evs) + 1, user, event.title,
                                      event.description, event.color,
                                      start_time, end_time)),
         result |-> Ok200]

\* db.query(Event).filter(Event.owner_id == user.id).all()
get_events(evs, user) ==
    {evs[i] : i \in {j \in 1..Len(evs) : evs[j].owner_id = user}}

\* db.query(Event).filter(Event.id == event_id, Event.owner_id == user.id).first()
OwnEvent(evs, user, event_id) ==
    IF \E i \in 1..Len(evs) : evs[i].id = event_id /\ evs[i].owner_id = user
    THEN CHOOSE i \in 1..Len(evs) : evs[i].id = event_id /\ evs[i].owner_id = user
    ELSE 0

\* The update with the row found by its id alone
update_event_any_owner(evs, user, event_id, data) ==
    IF event_id \notin 1..Len(evs) \/ evs[event_id] = NoEvent
    THEN [events |-> evs, result |-> EventNotFound]
    ELSE [events |-> [evs EXCEPT ![event_id].title =
                                     IF data.title # NoneV THEN data.title ELSE @],
          result |-> Ok200]

\* PUT /events/{event_id}
update_event(evs, user, event_id, data) ==
    LET ev == OwnEvent(evs, user, event_id)
    IN  IF ev = 0
        THEN [events |-> evs, result |-> EventNotFound]
        ELSE [events |->
                [evs EXCEPT
                   ![ev].title = IF data.title # NoneV THEN data.title ELSE @,
                   ![ev].description =
                       IF data.description # NoneV THEN data.description ELSE @,
                   ![ev].color = IF data.color # NoneV THEN data.color ELSE @,
                   ![ev].start_time =
                       IF data.start_time # NoTime THEN data.start_time ELSE @,
                   ![ev].end_time =
                       IF data.end_time # NoTime THEN data.end_time ELSE @],
              result |-> Ok200]

\* DELETE /events/{event_id}
delete_event(evs, user, event_id) ==
    LET ev == OwnEvent(evs, user, event_id)
    IN  IF ev = 0
        THEN [events |-> evs, result |-> EventNotFound]
        ELSE [events |-> [evs EXCEPT ![ev] = NoEvent], result |-> Ok200]

\* PUT /events/{event_id}/done
mark_done(evs, user, event_id) ==
    LET ev == OwnEvent(evs, user, event_id)
    IN  IF ev = 0
        THEN [events |-> evs, result |-> EventNotFound]
        ELSE [events |-> [evs EXCEPT ![ev].status = "done"], result |-> Ok200]


\* POST /import-ics
import_ics(evs, user, file) ==
    IF file = "notes.txt"
    THEN [events |-> evs, result |-> Response(400, "ics file expected")]
    ELSE IF file = "broken.ics"
    THEN [events |-> evs, result |-> Response(400, "bad ICS")]
    ELSE IF file = "untimed.ics"
    THEN [events |-> evs, result |-> Ok200]
    ELSE [events |-> Append(evs, Event(Len(evs) + 1, user, "summary", "",
                                       "#3788d8", IsoFormat(0), IsoFormat(60))),
          result |-> Ok200]


CreateEvent ==
    \E user \in UserIds, event \in EventCreates :
        LET r == create_event(events, user, event, now)
        IN  /\ Len(events) < MaxEvents
            /\ events' = r.events
            /\ last' = [Call("create_event", Len(r.events), r.result) EXCEPT !.sub = user]
            /\ UNCHANGED <<users, links, now, okConfirms, proc, bearer, form,
                           initData, boot, chat, reply>>

GetEvents ==
    \E user \in UserIds :
        /\ last' = [Call("get_events", 0,
                         [status |-> 200, detail |-> "ok",
                          rows |-> get_events(events, user)]) EXCEPT !.sub = user]
        /\ UNCHANGED <<users, links, now, okConfirms, proc, bearer, form,
                       initData, boot, events, chat, reply>>

UpdateEvent ==
    \E user \in UserIds, event_id \in 1..(MaxEvents + 1), data \in EventUpdates :
        LET r == update_event(events, user, event_id, data)
        IN  /\ events' = r.events
            /\ last' = [Call("update_event", event_id, r.result) EXCEPT !.sub = user]
            /\ UNCHANGED <<users, links, now, okConfirms, proc, bearer, form,
                           initData, boot, chat, reply>>

DeleteEvent ==
    \E user \in UserIds, event_id \in 1..(MaxEvents + 1) :
        LET r == delete_event(events, user, event_id)
        IN  /\ events' = r.events
            /\ last' = [Call("delete_event", event_id, r.result) EXCEPT !.sub = user]
            /\ UNCHANGED <<users, links, now, okConfirms, proc, bearer, form,
                           initData, boot, chat, reply>>

MarkDone ==
    \E user \in UserIds, event_id \in 1..(MaxEvents + 1) :
        LET r == mark_done(events, user, event_id)
        IN  /\ events' = r.events
            /\ last' = [Call("mark_done", event_id, r.result) EXCEPT !.sub = user]
            /\ UNCHANGED <<users, links, now, okConfirms, proc, bearer, form,
                           initData, boot, chat, reply>>

ImportIcs ==
    \E user \in UserIds, file \in {"notes.txt", "broken.ics", "untimed.ics", "one.ics"} :
        LET r == import_ics(events, user, file)
        IN  /\ Len(r.events) <= MaxEvents
            /\ events' = r.events
            /\ last' = [Call("import_ics", 0, r.result) EXCEPT !.sub = user]
            /\ UNCHANGED <<users, links, now, okConfirms, proc, bearer, form,
                           initData, boot, chat, reply>>

NextEvents ==
    \/ CreateEvent
    \/ GetEvents
    \/ UpdateEvent
    \/ DeleteEvent
    \/ MarkDone
    \/ ImportIcs

SpecEvents == InitAgent /\ [][NextEvents]_vars


(***************************************************************************)
(* Register requests that interleave: each runs its checks and its lookup  *)
(* on its own session, then inserts and commits.                           *)
(***************************************************************************)
\* register up to the existence lookup; a failed check ends the call
RegisterBegin(p) ==
    \E un \in UsernameInputs, pw \in PasswordInputs :
        LET outcome == register(users, un, pw).result
        IN  /\ proc[p].pc = "idle"
            /\ Len(users) < MaxUsers
            /\ IF outcome = Ok200
               THEN /\ proc' = [proc EXCEPT ![p] = [IdleProc EXCEPT
                                   !.pc = "register_checked",
                                   !.un = Strip(un), !.pw = Strip(pw)]]
                    /\ last' = last
               ELSE /\ proc' = proc
                    /\ last' = Call("register", p, outcome)
            /\ UNCHANGED <<users, links, now, okConfirms, bearer, form, initData,
                           boot, events, chat, reply>>

\* register, db.add(new_user) and db.commit()
RegisterCommit(p) ==
    LET r == RegisterInsert(users, proc[p].un, proc[p].pw)
    IN  /\ proc[p].pc = "register_checked"
        /\ users' = r.users
        /\ last' = Call("register", p, r.result)
        /\ proc' = [proc EXCEPT ![p] = IdleProc]
        /\ UNCHANGED <<links, now, okConfirms, bearer, form, initData, boot,
                       events, chat, reply>>

NextSignup ==
    \/ \E p \in Procs : RegisterBegin(p)
    \/ \E p \in Procs : RegisterCommit(p)

SpecSignup == Init /\ [][NextSignup]_vars


(***************************************************************************)
(* Properties.                                                             *)
(***************************************************************************)
\* A step in which the call op(arg) completed (Spec, SpecGateway).
Completed(op, arg) ==
    /\ last'.op = op
    /\ last'.arg = arg
    /\ now' = now

\* The row holding the code, which exists.
RowOf(ls, code) == CHOOSE i \in 1..Len(ls) : ls[i].code = code
HasRow(ls, code) == \E i \in 1..Len(ls) : ls[i].code = code

\* The user of the code's row requested another code after it.
Superseded(ls, code) ==
    \E i, j \in 1..Len(ls) :
        /\ ls[i].code = code
        /\ i < j
        /\ ls[j].user_id = ls[i].user_id

\* C1: with the calls executed one at a time, every user owns at most one
\* unused link record, and it is the newest of the user's records: requestCode
\* marked every older one used before it persisted the new one.
C1_OneUnusedCodePerUser ==
    \A u \in UserIds :
        /\ Cardinality({i \in LinkIds : links[i].user_id = u /\ links[i].used = 0}) <= 1
        /\ \A i, j \in LinkIds :
              (links[i].user_id = u /\ links[j].user_id = u /\ i < j)
                  => links[i].used = 1

\* A user's second code is live and the first was invalidated by it, unconfirmed.
C1_Witness ==
    \E i, j \in LinkIds :
        /\ i < j
        /\ links[i].user_id = links[j].user_id
        /\ links[i].used = 1
        /\ links[j].used = 0
        /\ okConfirms[links[i].code] = 0

\* C2: when requestCode calls of one user interleave, each in its own
\* transaction, no state holds two unused link records of that user.
C2_NoTwoUnusedUnderConcurrency ==
    \A i, j \in LinkIds :
        (links[i].user_id = links[j].user_id /\ links[i].used = 0 /\ links[j].used = 0)
            => i = j

\* C3: once a user has requested a code B after a code A, confirmCode(A) fails
\* with 400 'Code already used' and binds no Telegram id.
C3_SupersededCodeIsRejected ==
    [][\A c \in Codes :
          (Completed("confirm", c) /\ Superseded(links, c))
              => /\ last'.result = [status |-> 400, detail |-> "Code already used"]
                 /\ users' = users
                 /\ links' = links]_vars

\* confirmCode(A) was refused after B replaced the never-confirmed A.
C3_Witness ==
    /\ last.op = "confirm"
    /\ last.result.detail = "Code already used"
    /\ Superseded(links, last.arg)
    /\ okConfirms[last.arg] = 0


\* C4: confirmCode on an unexpired unused code answers ok, and a confirmCode on
\* the same code right after it answers 400 'Code already used' whatever
\* Telegram id it carries, leaving the chat id bound by the first call.
C4_ConfirmTwice ==
    [][\A c \in Codes :
          Completed("confirm", c)
              => /\ ( /\ HasRow(links, c)
                      /\ links[RowOf(links, c)].used = 0
                      /\ now <= links[RowOf(links, c)].expires_at.t )
                        => last'.result = [status |-> 200, detail |-> "ok"]
                 /\ ( /\ last.op = "confirm"
                      /\ last.arg = c
                      /\ last.result.status = 200 )
                        => /\ last'.result =
                                [status |-> 400, detail |-> "Code already used"]
                           /\ users' = users]_vars

\* The second confirmCode of a confirmed, unexpired code was refused, and the
\* owner is still bound.
C4_Witness ==
    /\ last.op = "confirm"
    /\ last.result.detail = "Code already used"
    /\ okConfirms[last.arg] = 1
    /\ now <= links[RowOf(links, last.arg)].expires_at.t
    /\ users[links[RowOf(links, last.arg)].user_id].telegram_chat_id # NoneV

\* C5: when confirmCode calls on one unused code interleave, at most one of
\* them answers ok.
C5_OneOkPerCodeUnderConcurrency ==
    \A c \in Codes : okConfirms[c] <= 1

\* C6: a code expires 15 minutes after requestCode created it: confirmCode on
\* an unused code answers 400 'Code expired' at every instant after the expiry
\* and does not answer so at any instant up to and including it.
C6_ExpiryAfterFifteenMinutes ==
    [][/\ Len(links') > Len(links)
            => links'[Len(links')].expires_at = [kind |-> "iso", t |-> now + 15]
       /\ \A c \in Codes :
            ( /\ Completed("confirm", c)
              /\ HasRow(links, c)
              /\ links[RowOf(links, c)].used = 0 )
                => LET expiry == links[RowOf(links, c)].expires_at.t
                   IN  /\ now > expiry
                            => last'.result = [status |-> 400, detail |-> "Code expired"]
                       /\ now <= expiry => last'.result.detail # "Code expired"]_vars

\* A code issued at minute 0 was refused as expired at minute 16.
C6_Witness ==
    /\ last.op = "confirm"
    /\ last.result.detail = "Code expired"
    /\ now = 16
    /\ links[RowOf(links, last.arg)].expires_at.t = 15
    /\ links[RowOf(links, last.arg)].used = 0


\* C7: a successful confirmCode(code, telegramId, telegramUsername) writes, in
\* its one commit, used = 1 on the code's row and str(telegramId) (and the
\* username when it is not empty) on the user who requested the code, and
\* nothing else; no step writes a chat id without marking the code, and no step
\* marks a code confirmed without writing the chat id.
C7_ConfirmCommitIsAtomic ==
    [][/\ okConfirms' # okConfirms
            => \E p \in Procs, c \in Codes :
                  /\ proc[p].pc = "confirm_checked"
                  /\ proc[p].code = c
                  /\ proc'[p].pc = "idle"
                  /\ okConfirms' = [okConfirms EXCEPT ![c] = @ + 1]
                  /\ LET i == RowOf(links, c)
                         u == links[RowOf(links, c)].user_id
                     IN  /\ links' = [links EXCEPT ![i].used = 1]
                         /\ users'[u].telegram_chat_id = ToString(proc[p].tid)
                         /\ users'[u].telegram_username =
                                IF proc[p].tun = "" THEN users[u].telegram_username
                                ELSE proc[p].tun
                         /\ \A f \in {"id", "username", "hashed_password", "theme",
                                      "hide_done", "timezone"} :
                                users'[u][f] = users[u][f]
                         /\ Len(users') = Len(users)
                         /\ \A v \in UserIds \ {u} : users'[v] = users[v]
       /\ \A u \in UserIds :
            ( /\ users'[u].telegram_chat_id # users[u].telegram_chat_id
              /\ users'[u].telegram_chat_id # NoneV )
                => okConfirms' # okConfirms
       /\ \A i \in LinkIds :
            (links[i].used = 0 /\ links'[i].used = 1 /\ Len(links') = Len(links))
                => okConfirms'[links[i].code] = okConfirms[links[i].code] + 1]_vars

\* The second user's code was confirmed with a username: that user is bound,
\* the first user is not.
C7_Witness ==
    \E i \in LinkIds :
        /\ links[i].user_id = 2
        /\ links[i].used = 1
        /\ okConfirms[links[i].code] = 1
        /\ users[2].telegram_chat_id \in {"1", "2"}
        /\ users[2].telegram_username = "neo"
        /\ users[1].telegram_chat_id = NoneV

\* C8: confirmCode answers 404 'Code not found' when no row has the code, 400
\* 'Code already used' when the row is used (expired or not), 400 'Code expired'
\* when the row is unused and past its expiry; a failed confirmCode leaves every
\* user row and every link row as it was.
C8_ConfirmFailures ==
    [][\A c \in Codes :
          Completed("confirm", c)
              => /\ ~HasRow(links, c)
                      => last'.result = [status |-> 404, detail |-> "Code not found"]
                 /\ (HasRow(links, c) /\ links[RowOf(links, c)].used = 1)
                      => last'.result = [status |-> 400, detail |-> "Code already used"]
                 /\ ( /\ HasRow(links, c)
                      /\ links[RowOf(links, c)].used = 0
                      /\ now > links[RowOf(links, c)].expires_at.t )
                      => last'.result = [status |-> 400, detail |-> "Code expired"]
                 /\ last'.result.status # 200
                      => users' = users /\ links' = links]_vars

\* A code both used and past its expiry was refused as already used.
C8_Witness ==
    /\ last.op = "confirm"
    /\ last.result = [status |-> 400, detail |-> "Code already used"]
    /\ links[RowOf(links, last.arg)].used = 1
    /\ now > links[RowOf(links, last.arg)].expires_at.t

\* C9: over requestCode, confirmCode, unlink and webappLogin calls, no link row
\* is deleted and a used row is never changed again: it stays used and keeps its
\* user id, code and expiry.
C9_UsedIsMonotonic ==
    [][/\ Len(links') >= Len(links)
       /\ \A i \in LinkIds : links[i].used = 1 => links'[i] = links[i]]_vars

\* Used rows (one confirmed, one superseded or confirmed) outlived an unlink or
\* a WebApp login.
C9_Witness ==
    /\ last.op \in {"webapp", "unlink"}
    /\ \E i, j \in LinkIds :
          /\ i # j
          /\ links[i].used = 1
          /\ links[j].used = 1
          /\ okConfirms[links[i].code] = 1

\* C10: unlink(user) empties that user's telegram_chat_id and telegram_username
\* and changes nothing else: not the user's other fields, no other user, no
\* link row.
C10_UnlinkFrame ==
    [][\A u \in UserIds :
          Completed("unlink", u)
              => /\ users'[u].telegram_chat_id = NoneV
                 /\ users'[u].telegram_username = NoneV
                 /\ \A f \in {"id", "username", "hashed_password", "theme",
                              "hide_done", "timezone"} :
                        users'[u][f] = users[u][f]
                 /\ Len(users') = Len(users)
                 /\ \A v \in UserIds \ {u} : users'[v] = users[v]
                 /\ links' = links]_vars

\* A user bound by a confirmed code was unlinked while holding a newer unused
\* code, and another user stays bound.
C10_Witness ==
    /\ last.op = "unlink"
    /\ users[last.arg].telegram_chat_id = NoneV
    /\ \E i, j \in LinkIds :
          /\ links[i].user_id = last.arg
          /\ links[j].user_id = last.arg
          /\ okConfirms[links[i].code] = 1
          /\ links[j].used = 0

(***************************************************************************)
(* C11                                                                     *)
(***************************************************************************)
\* C11: webappLogin is idempotent per Telegram id.  A verified login with an
\* id no account carries, and for which no tg_<id> account exists, creates
\* exactly one user named tg_<id> and returns a token for it; every verified
\* login with that id once the tg_<id> account exists succeeds, returns a
\* token whose subject is tg_<id>, and creates no user.
C11_WebappLoginIdempotent ==
    [][\A tid \in TelegramIds :
         Completed("webapp", tid)
           => IF UserByName(users, TgUsername(tid)) = 0
              THEN FirstByChatId(users, Str(tid)) = {0}
                     => /\ last'.result = Ok200
                        /\ Len(users') = Len(users) + 1
                        /\ last'.sub = Len(users')
                        /\ users'[last'.sub].username = TgUsername(tid)
              ELSE /\ last'.result = Ok200
                   /\ users' = users
                   /\ last'.sub = UserByName(users, TgUsername(tid))]_vars

(***************************************************************************)
(* C12                                                                     *)
(***************************************************************************)
\* A username of at most 150 characters and a password of 1 to 72
\* characters, neither of them blank.
ValidCredentials(f) ==
    /\ Len(f.un) <= MaxUsernameLen
    /\ Strip(f.un) # <<>>
    /\ Len(f.pw) >= 1
    /\ Len(f.pw) <= MaxPasswordLen
    /\ Strip(f.pw) # <<>>

\* C12: register(username, password) with valid credentials on a store not
\* holding that username (the register is not refused as a duplicate),
\* followed by login with the same two strings, succeeds and returns a token
\* whose subject equals the username.
C12_RegisterThenLogin ==
    [][( /\ last.op = "register"
         /\ ValidCredentials(form)
         /\ last.result.detail # "Username already registered"
         /\ last'.op = "login"
         /\ form' = form )
         => /\ last'.result = Ok200
            /\ last'.sub # 0
            /\ users[last'.sub].username = form.un]_vars

(***************************************************************************)
(* C13                                                                     *)
(***************************************************************************)
\* C13: login answers 401 'Invalid credentials', returns no token and
\* changes nothing, both when no user has the username and when the user
\* exists and the password is not the one registered; the two answers are
\* the same.
C13_LoginFailuresAlike ==
    [][Completed("login", 0)
         => LET unknown == \A i \in 1..Len(users) : users[i].username # form'.un
                wrong == \E i \in 1..Len(users) :
                            /\ users[i].username = form'.un
                            /\ users[i].hashed_password # get_password_hash(form'.pw)
            IN  (unknown \/ wrong)
                  => /\ last'.result = [status |-> 401, detail |-> "Invalid credentials"]
                     /\ last'.sub = 0
                     /\ bearer' = bearer
                     /\ users' = users
                     /\ links' = links]_vars

\* a login refused for a wrong password after one refused for an unknown name
C13_Witness ==
    /\ last.op = "login"
    /\ last.result.status = 401
    /\ \E i \in 1..Len(users) : users[i].username = form.un
    /\ \E j \in 1..Len(users) : users[j].username # form.un
    /\ bearer.kind = "jwt"

(***************************************************************************)
(* C14                                                                     *)
(***************************************************************************)
\* C14: register refuses, writing nothing, a username or password that is
\* empty after trimming, a trimmed username longer than 150 characters, a
\* trimmed password longer than 72 characters, and (as a duplicate) a
\* trimmed username a user already has; a refused register leaves the users
\* as they were, and no two users ever have the same username.
C14_RegisterValidates ==
    [][Completed("register", 0)
         => LET un == Strip(form'.un)
                pw == Strip(form'.pw)
                malformed == \/ un = <<>>
                             \/ pw = <<>>
                             \/ Len(un) > MaxUsernameLen
                             \/ Len(pw) > MaxPasswordLen
                duplicate == \E i \in 1..Len(users) : users[i].username = un
            IN  /\ malformed => last'.result.status = 400
                /\ (duplicate /\ ~malformed)
                     => last'.result = [status |-> 400,
                                        detail |-> "Username already registered"]
                /\ last'.result.status # 200 => users' = users
                /\ \A i, j \in 1..Len(users') :
                      users'[i].username = users'[j].username => i = j]_vars

(***************************************************************************)
(* C15                                                                     *)
(***************************************************************************)
\* A token the server issued: signed with its key, with a subject and an expiry.
Issued(token) ==
    /\ token.kind = "jwt"
    /\ token.key = SECRET_KEY
    /\ token.claims = {"sub", "exp"}

\* C15: a token issued for subject s expires 60 minutes after it was issued;
\* presented to /me at a time up to its expiry it yields s, presented later
\* it is refused with 401; the clock never goes back.
C15_TokenLifetime ==
    [][/\ now' >= now
       /\ (Completed("login", 0) /\ bearer' # bearer)
            => /\ bearer'.exp = now + 60
               /\ bearer'.sub = users[last'.sub].username
       /\ (Completed("me", 0) /\ bearer' = bearer /\ Issued(bearer))
            => IF now <= bearer.exp
               THEN /\ last'.result = Ok200
                    /\ users[last'.sub].username = bearer.sub
               ELSE /\ last'.result.status = 401
                    /\ last'.sub = 0]_vars

\* /me has refused a token of the server after its 60 minutes
C15_Witness ==
    /\ last.op = "me"
    /\ last.result.status = 401
    /\ Issued(bearer)
    /\ bearer.exp = 60
    /\ now = 61

(***************************************************************************)
(* C17                                                                     *)
(***************************************************************************)
\* C17: /me and the endpoints behind get_current_user refuse with 401, and
\* name no user for, a token that is no JWT, one whose signature was not
\* made with the server's key, one whose expiry has passed, and one
\* without a subject claim.
C17_OnlyIssuedTokensAccepted ==
    [][(Completed("me", 0) \/ Completed("profile", 0))
         => ( ( \/ bearer'.kind # "jwt"
                \/ bearer'.key # SECRET_KEY
                \/ bearer'.exp < now
                \/ "sub" \notin bearer'.claims )
                => /\ last'.result.status = 401
                   /\ last'.sub = 0 )]_vars

\* a token naming an existing user, signed with another key, was refused
C17_Witness ==
    /\ last.op \in {"me", "profile"}
    /\ last.result = [status |-> 401, detail |-> "Invalid token"]
    /\ bearer.kind = "jwt"
    /\ bearer.key # SECRET_KEY
    /\ bearer.exp >= now
    /\ \E i \in 1..Len(users) : users[i].username = bearer.sub

(***************************************************************************)
(* C16                                                                     *)
(***************************************************************************)
\* C16: a token the server issued is accepted by get_current_user and by
\* /me, for the user it was issued to, at every time up to its expiry,
\* whatever requests were served since it was issued.
C16_TokenNotRevocable ==
    (Issued(bearer) /\ now <= bearer.exp)
      => /\ read_users_me(bearer, now).result = Ok200
         /\ read_users_me(bearer, now).username = bearer.sub
         /\ get_current_user(users, bearer, now).result = Ok200
         /\ users[get_current_user(users, bearer, now).user].username = bearer.sub

\* at the last minute of its token, after a password change, a confirmed link
\* and an unlink, the holder was served a profile update
C16_Witness ==
    /\ Issued(bearer)
    /\ now = bearer.exp
    /\ now = 60
    /\ last.op = "update-profile"
    /\ last.result = Ok200
    /\ users[last.sub].hashed_password # get_password_hash(<<"p">>)
    /\ users[last.sub].theme = "light"
    /\ \E c \in Codes : okConfirms[c] = 1
    /\ users[last.sub].telegram_chat_id = NoneV

(***************************************************************************)
(* C18                                                                     *)
(***************************************************************************)
\* The verifier did not refuse d for its hash.
SignatureAccepted(d) ==
    verify_telegram_webapp_data(d, BOT_TOKEN).result.detail
        \notin {"No init data provided", "Missing hash in initData",
                "Invalid signature"}

\* d with its fields in the order p
Reordered(d, p) == [i \in 1..Len(d) |-> d[p[i]]]
Orders(d) == {p \in [1..Len(d) -> 1..Len(d)] : \A i, j \in 1..Len(d) : p[i] = p[j] => i = j}

\* C18: the verifier accepts the signature of an initData string exactly
\* when its hash is the HMAC-SHA256, keyed with the SHA-256 of the bot
\* token, of the canonical string of all its decoded fields other than
\* hash; the verdict is the same for every order of the fields; and once a
\* string is accepted, the string with the key or the decoded value of any
\* one of those fields changed is refused.
C18_VerifierCanonical ==
    /\ SignatureAccepted(initData)
         <=> \E i \in 1..Len(initData) :
                /\ initData[i].key = "hash"
                /\ initData[i].value # ""
                /\ initData[i].digest
                     = hmac_new(sha256(BOT_TOKEN), CanonicalString(initData))
    /\ \A p \in Orders(initData) :
          SignatureAccepted(Reordered(initData, p)) = SignatureAccepted(initData)
    /\ SignatureAccepted(initData)
         => \A i \in 1..Len(initData) :
              \A key \in FieldKeys, value \in FieldValues :
                 ( /\ initData[i].key # "hash"
                   /\ <<key, Unquote(value)>>
                        # <<initData[i].key, Unquote(initData[i].value)>> )
                   => ~SignatureAccepted([initData EXCEPT ![i] = Field(key, value)])

(***************************************************************************)
(* C19                                                                     *)
(***************************************************************************)
\* The user object the request carries, when its hash verifies.
PostedUser == verify_telegram_webapp_data(initData, BOT_TOKEN)

\* C19: POST /tg/webapp/login answers 200 with a token or 401; when the
\* hash is missing or does not match, when there is no user field, and
\* when the user field is not a JSON object with a numeric id, the answer
\* is 401, no user is created and no token is issued.
C19_WebappLoginFailures ==
    [][Completed("tg/webapp/login", 0)
         => /\ last'.result.status \in {200, 401}
            /\ ( \/ PostedUser.result # Ok200
                 \/ ~PostedUser.user.object
                 \/ PostedUser.user.id # "1" )
                 => /\ last'.result.status = 401
                    /\ users' = users
                    /\ last'.sub = 0]_vars

(***************************************************************************)
(* C20                                                                     *)
(***************************************************************************)
\* C20: when a Telegram user whose id is the telegram_chat_id of an account
\* sends /unlink to the bot, that account's telegram_chat_id and
\* telegram_username are cleared and the bot replies that it is unlinked.
C20_BotUnlinkClears ==
    [][\A tid \in TelegramIds :
         ( /\ Completed("/unlink", tid)
           /\ \E i \in 1..Len(users) : users[i].telegram_chat_id = Str(tid) )
           => /\ \A i \in 1..Len(users) :
                    users[i].telegram_chat_id = Str(tid)
                      => /\ users'[i].telegram_chat_id = NoneV
                         /\ users'[i].telegram_username = NoneV
              /\ last'.result.detail = "Unlinked."]_vars

(***************************************************************************)
(* C21                                                                     *)
(***************************************************************************)
\* C21: requestCode always succeeds and stores a code no row held before,
\* also when the code first generated is one a row already holds (as long
\* as some code is still free), and the stored codes are pairwise distinct.
C21_RequestCodeRegenerates ==
    [][( /\ last'.op = "link"
         /\ now' = now
         /\ \E c \in Codes : LinkByCode(links, c) = 0 )
         => /\ last'.result = Ok200
            /\ Len(links') = Len(links) + 1
            /\ LinkByCode(links, links'[Len(links')].code) = 0
            /\ \A i, j \in 1..Len(links') :
                  links'[i].code = links'[j].code => i = j]_vars

(***************************************************************************)
(* C22                                                                     *)
(***************************************************************************)
\* The unused row of a code whose expiry is not a parseable ISO time
BadExpiryRow(ls, code) ==
    /\ HasRow(ls, code)
    /\ ls[LinkByCode(ls, code)].used = 0
    /\ ls[LinkByCode(ls, code)].expires_at.kind # "iso"

C23_StoredPasswordsValid ==
    \A i \in 1..Len(users) :
        LET plain == users[i].hashed_password.plain
        IN  \/ plain = RandomPassword
            \/ /\ Strip(plain) # <<>>
               /\ Len(plain) <= MaxPasswordLen

(***************************************************************************)
(* C24                                                                     *)
(***************************************************************************)
\* C24: wait_for_db ends whatever the database does: it returns on the first
\* attempt that succeeds, makes at most 30 attempts with 2 seconds of sleep
\* after each failed one, raises after the 30th failure, and the service
\* serves only after an attempt has succeeded.
C24_WaitForDbTerminates ==
    /\ <>(boot.pc \in {"serving", "raised"})
    /\ [](boot.pc = "connect" => boot.i < Retries)
    /\ [](boot.i <= Retries /\ boot.slept = Delay * boot.i)
    /\ [](boot.pc \in {"ready", "serving"} => boot.outcome = "ok")
    /\ []((boot.pc = "raised" /\ boot.outcome = "OperationalError")
            => boot.i = Retries)
    /\ [][(boot.pc = "connect" /\ boot'.outcome = "ok")
            => (boot'.pc = "ready" /\ boot'.i = boot.i)]_vars

\* The 30th attempt has failed and wait_for_db has raised
C24_Witness ==
    /\ boot.pc = "raised"
    /\ boot.outcome = "OperationalError"
    /\ boot.i = Retries
    /\ boot.slept = 60

(***************************************************************************)
(* C25                                                                     *)
(***************************************************************************)
\* The rows of a user in the chat table
RowsOf(ch, user_id) == {i \in 1..Len(ch) : ch[i].user_id = user_id}

\* C25: get_chat_history(user_id, limit = N) returns rows of that user only,
\* in chronological order, and they are the N most recent ones: no row of
\* the user left out is newer than a row returned, so with more than N rows
\* stored the newest one is among those returned.
C25_HistoryIsMostRecent ==
    [][\A limit \in 1..MaxLimit :
          Completed("get_chat_history", limit)
            => LET h == reply'.history
                   mine == RowsOf(chat, reply'.user_id)
                   got == {h[k].id : k \in 1..Len(h)}
               IN  /\ got \subseteq mine
                   /\ Len(h) = IF Cardinality(mine) <= limit
                               THEN Cardinality(mine) ELSE limit
                   /\ \A k \in 1..(Len(h) - 1) : h[k].timestamp <= h[k + 1].timestamp
                   /\ \A i \in mine \ got, j \in got :
                         chat[i].timestamp <= chat[j].timestamp]_vars

(***************************************************************************)
(* C26                                                                     *)
(***************************************************************************)
\* C26: no two distinct users hold the same Telegram chat id.
C26_ChatIdsUnique ==
    \A i, j \in UserIds :
        ( /\ users[i].telegram_chat_id # NoneV
          /\ users[i].telegram_chat_id = users[j].telegram_chat_id ) => i = j

(***************************************************************************)
(* C27                                                                     *)
(***************************************************************************)
\* C27: a WebApp login with verified initData of Telegram id tid never
\* fails: it returns a token, and the token's subject is a user whose
\* telegram_chat_id is that id.
C27_WebappLoginNeverFails ==
    [][\A tid \in TelegramIds :
          Completed("webapp", tid)
            => /\ last'.result.status = 200
               /\ last'.sub \in 1..Len(users')
               /\ users'[last'.sub].telegram_chat_id = Str(tid)]_vars

(***************************************************************************)
(* C28                                                                     *)
(***************************************************************************)
\* C28: event operations are isolated per owner.  get_events returns exactly
\* the caller's rows; update_event, delete_event and mark_done on an id that
\* is not a row of the caller answer 404 and change nothing; no call changes
\* a row's owner_id, and a call creates, modifies or deletes only rows of
\* its caller.
C28_EventsIsolatedPerOwner ==
    [][(last'.op \in {"create_event", "get_events", "update_event",
                      "delete_event", "mark_done", "import_ics"})
         => LET user == last'.sub
            IN  /\ Len(events') >= Len(events)
                /\ \A i \in 1..Len(events) :
                      /\ events'[i].owner_id \in {events[i].owner_id, 0}
                      /\ events[i].owner_id # user => events'[i] = events[i]
                /\ \A i \in (Len(events) + 1)..Len(events') :
                      events'[i].owner_id = user
                /\ last'.op = "get_events"
                     => /\ \A row \in last'.result.rows : row.owner_id = user
                        /\ \A i \in 1..Len(events) :
                              events[i].owner_id = user
                                 => events[i] \in last'.result.rows
                /\ ( /\ last'.op \in {"update_event", "delete_event", "mark_done"}
                     /\ \/ last'.arg \notin 1..Len(events)
                        \/ events[last'.arg].owner_id # user )
                     => /\ last'.result = EventNotFound
                        /\ events' = events]_vars

\* An update of another user's event was answered 404
C28_Witness ==
    /\ last.op = "update_event"
    /\ last.result = EventNotFound
    /\ last.arg \in 1..Len(events)
    /\ events[last.arg].owner_id \notin {0, last.sub}
    /\ events[last.arg].title = "t"

(***************************************************************************)
(* C29                                                                     *)
(***************************************************************************)
\* The user a request's bearer token names at minute t; 0 without a valid
\* token of a user.
NamedBy(us, token, t) ==
    IF token.kind = "jwt" /\ token.key = SECRET_KEY /\ token.exp >= t
    THEN UserByName(us, token.sub)
    ELSE 0

\* C29: /ask acts only for the user its bearer token names: the user id it
\* puts in the context, the owner of every event a tool creates or lists and
\* the user of every chat row stored are that user; without a valid token
\* it answers 401 and writes no event and no chat row.
C29_AskActsForTokenUser ==
    [][last'.op = "ask"
         => LET user == NamedBy(users, bearer', now)
            IN  IF user = 0
                THEN /\ reply'.status = 401
                     /\ reply'.tool = "none"
                     /\ events' = events
                     /\ chat' = chat
                ELSE /\ reply'.user_id = user
                     /\ reply'.owner_id \in {0, user}
                     /\ \A i \in (Len(events) + 1)..Len(events') :
                           events'[i].owner_id = user
                     /\ \A i \in (Len(chat) + 1)..Len(chat') :
                           chat'[i].user_id = user]_vars

(***************************************************************************)
(* C30                                                                     *)
(***************************************************************************)
\* C30: when register calls for one username interleave, each doing its
\* lookup before the other commits, the call that commits first creates the
\* user and the other answers 400 'Username already registered', never a
\* 5xx, and the store holds exactly one user of that name.
C30_ConcurrentRegister ==
    [][\A p \in Procs :
          ( /\ proc[p].pc = "register_checked"
            /\ proc'[p].pc = "idle" )
            => /\ last'.op = "register"
               /\ last'.result.status < 500
               /\ IF UserByName(users, proc[p].un) # 0
                  THEN /\ last'.result = Response(400, "Username already registered")
                       /\ users' = users
                  ELSE /\ last'.result = Ok200
                       /\ Len(users') = Len(users) + 1
               /\ Cardinality({i \in 1..Len(users') :
                                  users'[i].username = proc[p].un}) = 1]_vars
====
